---------------------------- MODULE Spec2Model ----------------------------
(***************************************************************************)
(* A model of notebook_v1.py: the Cell / Notebook object model, the        *)
(* py-percent serializer, the structured serializer (with its file round   *)
(* trip) and the outliner.                                                 *)
(*                                                                         *)
(* Text is modelled at the character level: a Python str is a sequence of  *)
(* one-character strings.  A character outside ASCII is named by its code  *)
(* point ("U+250C" is the box corner the outliner draws).                  *)
(*                                                                         *)
(* A Python value (what json.loads returns, what Notebook receives) is a   *)
(* node [tag, s, n, items]:                                                *)
(*    tag = "none"                      None                               *)
(*    tag = "int",  n = the integer     an int                             *)
(*    tag = "str",  s = its characters  a str                              *)
(*    tag = "list", items = its values  a list                             *)
(*    tag = "dict", items = its pairs   a dict, in insertion order; a pair *)
(*                                      is a node with tag "pair", s the   *)
(*                                      key and items = <<value>>          *)
(***************************************************************************)
EXTENDS Integers, Sequences, FiniteSets, TLC

(***************************************************************************)
(* Bounds of the model.                                                    *)
(***************************************************************************)
\* the longest cells array of an input mapping
MaxCells == 2
\* the longest source (in lines) of a cell
MaxLines == 3
\* the largest nbformat / nbformat_minor of an input mapping
MaxVersion == 11

(***************************************************************************)
(* Python values.                                                          *)
(***************************************************************************)
PyNone == [tag |-> "none", s |-> <<>>, n |-> 0, items |-> <<>>]

PyInt(k) == [tag |-> "int", s |-> <<>>, n |-> k, items |-> <<>>]

PyStr(cs) == [tag |-> "str", s |-> cs, n |-> 0, items |-> <<>>]

PyList(xs) == [tag |-> "list", s |-> <<>>, n |-> 0, items |-> xs]

PyPair(k, v) == [tag |-> "pair", s |-> k, n |-> 0, items |-> <<v>>]

PyDict(kvs) == [tag |-> "dict", s |-> <<>>, n |-> 0, items |-> kvs]

\* key in d
HasKey(d, key) == \E i \in 1..Len(d.items) : d.items[i].s = key

\* d[key], for a key that is in d (the callers raise KeyError otherwise)
GetItem(d, key) ==
    LET i == CHOOSE j \in 1..Len(d.items) : d.items[j].s = key
    IN  d.items[i].items[1]

\* d[key] = v: replaces the value of a key already there, appends otherwise
SetItem(d, key, v) ==
    IF HasKey(d, key)
    THEN PyDict([i \in 1..Len(d.items) |->
                    IF d.items[i].s = key THEN PyPair(key, v) ELSE d.items[i]])
    ELSE PyDict(Append(d.items, PyPair(key, v)))

(***************************************************************************)
(* The string literals of the source.                                      *)
(***************************************************************************)
K_cells == <<"c", "e", "l", "l", "s">>
K_nbformat == <<"n", "b", "f", "o", "r", "m", "a", "t">>
K_nbformat_minor == <<"n", "b", "f", "o", "r", "m", "a", "t", "_", "m", "i", "n", "o", "r">>
K_cell_type == <<"c", "e", "l", "l", "_", "t", "y", "p", "e">>
K_id == <<"i", "d">>
K_source == <<"s", "o", "u", "r", "c", "e">>
K_execution_count == <<"e", "x", "e", "c", "u", "t", "i", "o", "n", "_", "c", "o", "u", "n", "t">>
K_metadata == <<"m", "e", "t", "a", "d", "a", "t", "a">>
K_outputs == <<"o", "u", "t", "p", "u", "t", "s">>
S_markdown == <<"m", "a", "r", "k", "d", "o", "w", "n">>
S_code == <<"c", "o", "d", "e">>
\* a cell_type that is neither of the two the source names
S_raw == <<"r", "a", "w">>
S_None == <<"N", "o", "n", "e">>
S_null == <<"n", "u", "l", "l">>
\* 'Jupyter Notebook v'
S_title == <<"J", "u", "p", "y", "t", "e", "r", " ", "N", "o", "t", "e", "b", "o", "o", "k", " ", "v">>
\* the header's arrow, then ' cell #'
S_arrow == <<"U+2514", "U+2500", "U+25B6", " ">>
S_cell == <<" ", "c", "e", "l", "l", " ", "#">>
\* the four prefixes of a source line in the outline
S_first == <<" ", " ", " ", " ", "U+250C", " ", " ">>
S_last == <<" ", " ", " ", " ", "U+2514", " ", " ">>
S_inner == <<" ", " ", " ", " ", "U+2502", " ", " ">>
S_single == <<" ", " ", " ", " ", "|", " ">>
\* '# %% [markdown]\n', '# %%\n' and '# '
S_md_header == <<"#", " ", "%", "%", " ", "[", "m", "a", "r", "k", "d", "o", "w", "n", "]", "\n">>
S_code_header == <<"#", " ", "%", "%", "\n">>
S_comment == <<"#", " ">>
NL == "\n"

(***************************************************************************)
(* str(), repr() and int() of Python, as far as the program uses them.     *)
(***************************************************************************)
DigitChars == <<"0", "1", "2", "3", "4", "5", "6", "7", "8", "9">>

IsDigit(c) == \E d \in 1..10 : DigitChars[d] = c

DigitValue(c) == (CHOOSE d \in 1..10 : DigitChars[d] = c) - 1

RECURSIVE NatDigits(_)
\* the decimal digits of a natural number
NatDigits(k) ==
    IF k < 10 THEN <<DigitChars[k + 1]>>
    ELSE NatDigits(k \div 10) \o <<DigitChars[(k % 10) + 1]>>

\* str(k) of an int
IntStr(k) == IF k < 0 THEN <<"-">> \o NatDigits(-k) ELSE NatDigits(k)

\* int(c) of a one-character str: its value, or ValueError
IntOfChar(c) ==
    IF IsDigit(c) THEN [exc |-> "", val |-> DigitValue(c)]
    ELSE [exc |-> "ValueError", val |-> 0]

\* the quote repr() puts around a str: double only if the str holds a single
\* quote and no double quote
ReprQuote(cs) ==
    IF (\E i \in 1..Len(cs) : cs[i] = "'") /\ ~(\E i \in 1..Len(cs) : cs[i] = "\"")
    THEN "\"" ELSE "'"

\* one character of a str inside its repr()
ReprChar(c, q) ==
    IF c = "\\" THEN <<"\\", "\\">>
    ELSE IF c = "\n" THEN <<"\\", "n">>
    ELSE IF c = q THEN <<"\\", c>>
    ELSE <<c>>

RECURSIVE ReprChars(_, _)
ReprChars(cs, q) ==
    IF cs = <<>> THEN <<>>
    ELSE ReprChar(Head(cs), q) \o ReprChars(Tail(cs), q)

\* repr() of a str
ReprStr(cs) == LET q == ReprQuote(cs) IN <<q>> \o ReprChars(cs, q) \o <<q>>

RECURSIVE Repr(_)
RECURSIVE ReprItems(_, _)
\* repr() of a value; str() of a dict or a list is its repr()
Repr(v) ==
    CASE v.tag = "none" -> S_None
      [] v.tag = "int"  -> IntStr(v.n)
      [] v.tag = "str"  -> ReprStr(v.s)
      [] v.tag = "pair" -> ReprStr(v.s) \o <<":", " ">> \o Repr(v.items[1])
      [] v.tag = "list" -> <<"[">> \o ReprItems(v.items, 1) \o <<"]">>
      [] v.tag = "dict" -> <<"{">> \o ReprItems(v.items, 1) \o <<"}">>

\* the items from the i-th on, joined by ', '
ReprItems(xs, i) ==
    IF i > Len(xs) THEN <<>>
    ELSE Repr(xs[i]) \o (IF i < Len(xs) THEN <<",", " ">> ELSE <<>>)
            \o ReprItems(xs, i + 1)

\* str(v), which is also what an f-string puts for {v}
Str(v) == IF v.tag = "str" THEN v.s ELSE Repr(v)

(***************************************************************************)
(* json.loads and ast.literal_eval, on the texts the program can write:    *)
(* dicts with str keys, lists, strs, ints and None / null.  Both are       *)
(* recursive-descent readers of the same shape; mode "json" is the strict  *)
(* JSON grammar and mode "py" the Python literal grammar.  A reader        *)
(* returns [ok, val, pos]: whether it read a value, the value, and the     *)
(* index after it.                                                         *)
(***************************************************************************)
ParseFail == [ok |-> FALSE, val |-> PyNone, pos |-> 0]

\* the i-th character of t, "" past its end
At(t, i) == IF i >= 1 /\ i <= Len(t) THEN t[i] ELSE ""

StartsWith(t, i, lit) ==
    /\ i + Len(lit) - 1 <= Len(t)
    /\ SubSeq(t, i, i + Len(lit) - 1) = lit

RECURSIVE SkipWs(_, _)
\* the index of the first character from i on that is not white space
SkipWs(t, i) == IF At(t, i) \in {" ", "\n", "\t", "\r"} THEN SkipWs(t, i + 1) ELSE i

RECURSIVE ParseDigits(_, _, _)
\* the digits from i on, added to acc
ParseDigits(t, i, acc) ==
    IF IsDigit(At(t, i)) THEN ParseDigits(t, i + 1, 10 * acc + DigitValue(t[i]))
    ELSE [ok |-> TRUE, val |-> PyInt(acc), pos |-> i]

\* an integer: '0', or a nonzero digit and more digits, after an optional '-'
ParseInt(t, i) ==
    LET neg == At(t, i) = "-"
        j == IF neg THEN i + 1 ELSE i
        r == IF At(t, j) = "0" THEN [ok |-> TRUE, val |-> PyInt(0), pos |-> j + 1]
             ELSE IF IsDigit(At(t, j)) THEN ParseDigits(t, j, 0)
             ELSE ParseFail
    IN  IF r.ok /\ neg THEN [r EXCEPT !.val = PyInt(-r.val.n)] ELSE r

RECURSIVE ParseString(_, _, _, _, _)
\* the characters of a str up to its closing quote q; i is inside the str
ParseString(mode, t, i, q, acc) ==
    LET c == At(t, i)
        e == At(t, i + 1)
    IN  IF c = "" \/ c = "\n" THEN ParseFail
        ELSE IF c = q THEN [ok |-> TRUE, val |-> PyStr(acc), pos |-> i + 1]
        ELSE IF c = "\\"
             THEN IF e = "n" THEN ParseString(mode, t, i + 2, q, Append(acc, "\n"))
                  ELSE IF e = "\\" \/ e = "\"" \/ (e = "'" /\ mode = "py")
                       THEN ParseString(mode, t, i + 2, q, Append(acc, e))
                  ELSE ParseFail
        ELSE ParseString(mode, t, i + 1, q, Append(acc, c))

RECURSIVE ParseValue(_, _, _)
RECURSIVE ParseList(_, _, _, _)
RECURSIVE ParseDict(_, _, _, _)
\* the value that starts at index i
ParseValue(mode, t, i) ==
    LET c == At(t, i)
    IN  CASE c = "{" -> ParseDict(mode, t, SkipWs(t, i + 1), PyDict(<<>>))
          [] c = "[" -> ParseList(mode, t, SkipWs(t, i + 1), <<>>)
          [] c = "\"" -> ParseString(mode, t, i + 1, c, <<>>)
          [] c = "'" /\ mode = "py" -> ParseString(mode, t, i + 1, c, <<>>)
          [] c = "-" \/ IsDigit(c) -> ParseInt(t, i)
          [] mode = "json" /\ StartsWith(t, i, S_null) ->
                [ok |-> TRUE, val |-> PyNone, pos |-> i + Len(S_null)]
          [] mode = "py" /\ StartsWith(t, i, S_None) ->
                [ok |-> TRUE, val |-> PyNone, pos |-> i + Len(S_None)]
          [] OTHER -> ParseFail

\* the rest of a list: i is after '[' or after a ','
ParseList(mode, t, i, acc) ==
    IF At(t, i) = "]" /\ (acc = <<>> \/ mode = "py")
    THEN [ok |-> TRUE, val |-> PyList(acc), pos |-> i + 1]
    ELSE LET r == ParseValue(mode, t, i)
             j == SkipWs(t, r.pos)
         IN  IF ~r.ok THEN ParseFail
             ELSE IF At(t, j) = ","
                  THEN ParseList(mode, t, SkipWs(t, j + 1), Append(acc, r.val))
             ELSE IF At(t, j) = "]"
                  THEN [ok |-> TRUE, val |-> PyList(Append(acc, r.val)), pos |-> j + 1]
             ELSE ParseFail

\* the rest of a dict: i is after '{' or after a ','
ParseDict(mode, t, i, acc) ==
    IF At(t, i) = "}" /\ (acc.items = <<>> \/ mode = "py")
    THEN [ok |-> TRUE, val |-> acc, pos |-> i + 1]
    ELSE LET k == ParseValue(mode, t, i)
             j == SkipWs(t, k.pos)
             v == ParseValue(mode, t, SkipWs(t, j + 1))
             m == SkipWs(t, v.pos)
         IN  IF ~k.ok \/ k.val.tag # "str" \/ At(t, j) # ":" THEN ParseFail
             ELSE IF ~v.ok THEN ParseFail
             ELSE IF At(t, m) = ","
                  THEN ParseDict(mode, t, SkipWs(t, m + 1), SetItem(acc, k.val.s, v.val))
             ELSE IF At(t, m) = "}"
                  THEN [ok |-> TRUE, val |-> SetItem(acc, k.val.s, v.val), pos |-> m + 1]
             ELSE ParseFail

\* a whole text: one value and nothing but white space around it
ParseText(mode, t) ==
    LET r == ParseValue(mode, t, SkipWs(t, 1))
    IN  IF r.ok /\ SkipWs(t, r.pos) = Len(t) + 1
        THEN [exc |-> "", val |-> r.val]
        ELSE [exc |-> IF mode = "json" THEN "JSONDecodeError" ELSE "SyntaxError",
              val |-> PyNone]

\* json.loads(string)
json_loads(string) == ParseText("json", string)

\* ast.literal_eval(string)
literal_eval(string) == ParseText("py", string)

\* The text of an .ipynb file as Jupyter writes it (JSON): what the samples
\* Notebook.from_file reads hold.  The program itself never writes this form.
RECURSIVE JsonItems(_, _)
RECURSIVE JsonDumps(_)
JsonDumps(v) ==
    CASE v.tag = "none" -> S_null
      [] v.tag = "int"  -> IntStr(v.n)
      [] v.tag = "str"  -> <<"\"">> \o ReprChars(v.s, "\"") \o <<"\"">>
      [] v.tag = "pair" -> <<"\"">> \o ReprChars(v.s, "\"") \o <<"\"", ":", " ">>
                              \o JsonDumps(v.items[1])
      [] v.tag = "list" -> <<"[">> \o JsonItems(v.items, 1) \o <<"]">>
      [] v.tag = "dict" -> <<"{">> \o JsonItems(v.items, 1) \o <<"}">>

JsonItems(xs, i) ==
    IF i > Len(xs) THEN <<>>
    ELSE JsonDumps(xs[i]) \o (IF i < Len(xs) THEN <<",", " ">> ELSE <<>>)
            \o JsonItems(xs, i + 1)

(***************************************************************************)
(* The cells.  An object is a record of its attributes; an attribute that  *)
(* __init__ did not set is marked by has_execution_count = FALSE.  A       *)
(* constructor returns [exc, obj]: the exception it raised ("" for none)   *)
(* and the object.                                                         *)
(***************************************************************************)
NoCell ==
    [cls |-> "", id |-> PyNone, source |-> PyNone, type |-> PyNone,
     has_execution_count |-> FALSE, execution_count |-> PyNone]

\* Cell.__init__: three subscripts, each a KeyError when the key is missing
Cell(cls, ipynb) ==
    IF ~HasKey(ipynb, K_id) \/ ~HasKey(ipynb, K_source) \/ ~HasKey(ipynb, K_cell_type)
    THEN [exc |-> "KeyError", obj |-> NoCell]
    ELSE [exc |-> "",
          obj |-> [cls |-> cls,
                   id |-> GetItem(ipynb, K_id),
                   source |-> GetItem(ipynb, K_source),
                   type |-> GetItem(ipynb, K_cell_type),
                   has_execution_count |-> FALSE,
                   execution_count |-> PyNone]]

\* CodeCell.__init__
CodeCell(ipynb) ==
    LET r == Cell("CodeCell", ipynb)
    IN  IF r.exc # "" THEN r
        ELSE IF r.obj.type = PyStr(S_code)
             THEN IF HasKey(ipynb, K_execution_count)
                  THEN [r EXCEPT !.obj.has_execution_count = TRUE,
                                 !.obj.execution_count = GetItem(ipynb, K_execution_count)]
                  ELSE [exc |-> "KeyError", obj |-> NoCell]
        ELSE r

\* MarkdownCell.__init__
MarkdownCell(ipynb) == Cell("MarkdownCell", ipynb)

(***************************************************************************)
(* The notebook.                                                           *)
(***************************************************************************)
NoNotebook == [version |-> <<>>, cells |-> <<>>]

\* the dispatch of Notebook.__init__ on one entry of ipynb['cells']
NewCell(cell) ==
    IF ~HasKey(cell, K_cell_type) THEN [exc |-> "KeyError", obj |-> NoCell]
    ELSE IF GetItem(cell, K_cell_type) = PyStr(S_markdown) THEN MarkdownCell(cell)
    ELSE CodeCell(cell)

RECURSIVE AppendCells_prepend(_, _, _)
\* AppendCells with insert(0, ...) for append
AppendCells_prepend(entries, i, acc) ==
    IF i > Len(entries) THEN [exc |-> "", cells |-> acc]
    ELSE LET r == NewCell(entries[i])
         IN  IF r.exc # "" THEN [exc |-> r.exc, cells |-> <<>>]
             ELSE AppendCells_prepend(entries, i + 1, <<r.obj>> \o acc)

RECURSIVE AppendCells(_, _, _)
\* the loop of Notebook.__init__ from the i-th entry on; acc is self.cells
AppendCells(entries, i, acc) ==
    IF i > Len(entries) THEN [exc |-> "", cells |-> acc]
    ELSE LET r == NewCell(entries[i])
         IN  IF r.exc # "" THEN [exc |-> r.exc, cells |-> <<>>]
             ELSE AppendCells(entries, i + 1, Append(acc, r.obj))

\* Notebook.__init__
Notebook(ipynb) ==
    IF ~HasKey(ipynb, K_nbformat) \/ ~HasKey(ipynb, K_nbformat_minor)
          \/ ~HasKey(ipynb, K_cells)
    THEN [exc |-> "KeyError", obj |-> NoNotebook]
    ELSE LET version == Str(GetItem(ipynb, K_nbformat)) \o <<".">>
                            \o Str(GetItem(ipynb, K_nbformat_minor))
             r == AppendCells(GetItem(ipynb, K_cells).items, 1, <<>>)
         IN  IF r.exc # "" THEN [exc |-> r.exc, obj |-> NoNotebook]
             ELSE [exc |-> "", obj |-> [version |-> version, cells |-> r.cells]]

\* Notebook.from_file on the text of the file: json.loads, and on any
\* exception ast.literal_eval; path tells which of the two read the text
from_file(string) ==
    LET j == json_loads(string)
        a == literal_eval(string)
    IN  IF j.exc = "" THEN [path |-> "json_loads"] @@ Notebook(j.val)
        ELSE IF a.exc = "" THEN [path |-> "literal_eval"] @@ Notebook(a.val)
        ELSE [path |-> "literal_eval", exc |-> a.exc, obj |-> NoNotebook]

\* Notebook.__iter__, run to its end: list(nb)
Iter(notebook) == [i \in 1..Len(notebook.cells) |-> notebook.cells[i]]

(***************************************************************************)
(* PyPercentSerializer.                                                    *)
(***************************************************************************)
RECURSIVE JoinLines(_, _, _)
\* the inner loops of to_py_percent: every line from the i-th on, each after
\* the prefix
JoinLines(prefix, lines, i) ==
    IF i > Len(lines) THEN <<>>
    ELSE prefix \o lines[i].s \o JoinLines(prefix, lines, i + 1)

\* the block of a cell: its marker line, then its source lines
PyPercentBlock(cell) ==
    IF cell.type = PyStr(S_markdown)
    THEN S_md_header \o JoinLines(S_comment, cell.source.items, 1)
    ELSE S_code_header \o JoinLines(<<>>, cell.source.items, 1)

\* what one pass of the loop of to_py_percent adds to text: the block, '\n\n'
PyPercentCell(cell) == PyPercentBlock(cell) \o <<NL, NL>>

RECURSIVE PyPercentLoop(_, _)
PyPercentLoop(cells, i) ==
    IF i > Len(cells) THEN <<>>
    ELSE PyPercentCell(cells[i]) \o PyPercentLoop(cells, i + 1)

\* text[:-k]
DropLast(text, k) == SubSeq(text, 1, Len(text) - k)

\* to_py_percent with text[:-1] for text[:-2]
to_py_percent_trim_one(notebook) == DropLast(PyPercentLoop(Iter(notebook), 1), 1)

\* PyPercentSerializer.to_py_percent
to_py_percent(notebook) == DropLast(PyPercentLoop(Iter(notebook), 1), 2)

(***************************************************************************)
(* Serializer.                                                             *)
(***************************************************************************)
EmptyDict == PyDict(<<>>)

\* the dict Serializer.serialize appends for one cell; reading the
\* execution_count of a cell that has none is an AttributeError
SerializeCell(cell) ==
    IF cell.cls = "MarkdownCell"
    THEN [exc |-> "",
          val |-> PyDict(<<PyPair(K_cell_type, cell.type), PyPair(K_id, cell.id),
                           PyPair(K_metadata, EmptyDict),
                           PyPair(K_source, cell.source)>>)]
    ELSE IF ~cell.has_execution_count THEN [exc |-> "AttributeError", val |-> PyNone]
    ELSE [exc |-> "",
          val |-> PyDict(<<PyPair(K_cell_type, cell.type),
                           PyPair(K_execution_count, cell.execution_count),
                           PyPair(K_id, cell.id), PyPair(K_metadata, EmptyDict),
                           PyPair(K_outputs, PyList(<<>>)),
                           PyPair(K_source, cell.source)>>)]

RECURSIVE SerializeLoop(_, _, _)
SerializeLoop(cells, i, acc) ==
    IF i > Len(cells) THEN [exc |-> "", val |-> PyList(acc)]
    ELSE LET r == SerializeCell(cells[i])
         IN  IF r.exc # "" THEN r
             ELSE SerializeLoop(cells, i + 1, Append(acc, r.val))

\* int(self.notebook.version[0])
VersionMajor(version) == IntOfChar(version[1])

\* int(self.notebook.version[-1])
VersionMinor(version) == IntOfChar(version[Len(version)])

\* Serializer.serialize
serialize(notebook) ==
    LET cells == SerializeLoop(Iter(notebook), 1, <<>>)
        major == VersionMajor(notebook.version)
        minor == VersionMinor(notebook.version)
    IN  IF cells.exc # "" THEN cells
        ELSE IF major.exc # "" THEN [exc |-> major.exc, val |-> PyNone]
        ELSE IF minor.exc # "" THEN [exc |-> minor.exc, val |-> PyNone]
        ELSE [exc |-> "",
              val |-> PyDict(<<PyPair(K_cells, cells.val),
                               PyPair(K_metadata, EmptyDict),
                               PyPair(K_nbformat, PyInt(major.val)),
                               PyPair(K_nbformat_minor, PyInt(minor.val))>>)]

\* what Serializer.to_file leaves in the file: open(filename, 'w+') empties
\* it before serialize() runs, so an exception leaves it empty
to_file(notebook) ==
    LET r == serialize(notebook)
    IN  IF r.exc # "" THEN [exc |-> r.exc, val |-> <<>>]
        ELSE [exc |-> "", val |-> Str(r.val)]

(***************************************************************************)
(* Outliner.                                                               *)
(***************************************************************************)
LowerChars ==
    <<"a", "b", "c", "d", "e", "f", "g", "h", "i", "j", "k", "l", "m",
      "n", "o", "p", "q", "r", "s", "t", "u", "v", "w", "x", "y", "z">>

UpperChars ==
    <<"A", "B", "C", "D", "E", "F", "G", "H", "I", "J", "K", "L", "M",
      "N", "O", "P", "Q", "R", "S", "T", "U", "V", "W", "X", "Y", "Z">>

ToUpper(c) ==
    IF \E i \in 1..26 : LowerChars[i] = c
    THEN UpperChars[CHOOSE i \in 1..26 : LowerChars[i] = c] ELSE c

ToLower(c) ==
    IF \E i \in 1..26 : UpperChars[i] = c
    THEN LowerChars[CHOOSE i \in 1..26 : UpperChars[i] = c] ELSE c

\* str.capitalize()
Capitalize(cs) ==
    [i \in 1..Len(cs) |-> IF i = 1 THEN ToUpper(cs[i]) ELSE ToLower(cs[i])]

\* the header line of a cell, with its line break
OutlineHeader(cell) ==
    S_arrow \o Capitalize(cell.type.s) \o S_cell \o Str(cell.id)
        \o (IF cell.type = PyStr(S_code)
            THEN <<" ", "(">> \o Str(cell.execution_count) \o <<")">>
            ELSE <<>>)
        \o <<NL>>

\* OutlinePrefix with len(cell.source) for len(cell.source) - 1
OutlinePrefix_off_by_one(indice, count) ==
    IF indice = 0 THEN S_first
    ELSE IF indice = count THEN S_last
    ELSE S_inner

\* the prefix of the line of index indice (from 0) among count lines, in the
\* branch of a source that has not exactly one line
OutlinePrefix(indice, count) ==
    IF indice = 0 THEN S_first
    ELSE IF indice = count - 1 THEN S_last
    ELSE S_inner

RECURSIVE OutlineLines(_, _)
\* the enumerate loop from the line of index indice on
OutlineLines(lines, indice) ==
    IF indice >= Len(lines) THEN <<>>
    ELSE OutlinePrefix(indice, Len(lines)) \o lines[indice + 1].s
            \o OutlineLines(lines, indice + 1)

\* the lines of a cell's source, with the line break that ends the block
OutlineSource(source) ==
    (IF Len(source.items) # 1 THEN OutlineLines(source.items, 0)
     ELSE S_single \o source.items[1].s)
        \o <<NL>>

\* what one pass of the loop of outline adds to text
OutlineCell(cell) == OutlineHeader(cell) \o OutlineSource(cell.source)

RECURSIVE OutlineLoop(_, _)
OutlineLoop(cells, i) ==
    IF i > Len(cells) THEN <<>>
    ELSE OutlineCell(cells[i]) \o OutlineLoop(cells, i + 1)

\* outline without the final [:-1]
outline_untrimmed(notebook) ==
    S_title \o notebook.version \o <<NL>> \o OutlineLoop(Iter(notebook), 1)

\* Outliner.outline
outline(notebook) ==
    DropLast(S_title \o notebook.version \o <<NL>> \o OutlineLoop(Iter(notebook), 1), 1)

(***************************************************************************)
(* The inputs: the mappings Notebook receives.                             *)
(***************************************************************************)
\* a list of str
StrList(lines) == PyList([i \in 1..Len(lines) |-> PyStr(lines[i])])

\* one entry of 'cells', as an .ipynb file holds it; has_ec tells whether
\* the key execution_count is there
CellMapping(type, has_ec, ec, id, lines) ==
    PyDict(<<PyPair(K_cell_type, PyStr(type))>>
           \o (IF has_ec THEN <<PyPair(K_execution_count, ec)>> ELSE <<>>)
           \o <<PyPair(K_id, PyStr(id)), PyPair(K_metadata, EmptyDict),
                PyPair(K_source, StrList(lines))>>)

NotebookMapping(major, minor, cells) ==
    PyDict(<<PyPair(K_cells, PyList(cells)), PyPair(K_metadata, EmptyDict),
             PyPair(K_nbformat, PyInt(major)), PyPair(K_nbformat_minor, PyInt(minor))>>)

\* the cells of samples/hello-world.ipynb, as the doctests print them
HelloWorldCells ==
    <<CellMapping(S_markdown, FALSE, PyNone,
                  <<"a", "9", "5", "4", "1", "5", "0", "6">>,
                  << <<"H", "e", "l", "l", "o", " ", "w", "o", "r", "l", "d", "!", "\n">>,
                     <<"=", "=", "=", "=", "=", "=", "=", "=", "=", "=", "=", "=", "\n">>,
                     <<"P", "r", "i", "n", "t", " ", "U+0060", "H", "e", "l", "l", "o", " ",
                       "w", "o", "r", "l", "d", "!", "U+0060", ":">> >>),
      CellMapping(S_code, TRUE, PyInt(1),
                  <<"b", "7", "7", "7", "4", "2", "0", "a">>,
                  << <<"p", "r", "i", "n", "t", "(", "\"", "H", "e", "l", "l", "o", " ",
                       "w", "o", "r", "l", "d", "!", "\"", ")">> >>),
      CellMapping(S_markdown, FALSE, PyNone,
                  <<"a", "2", "3", "a", "b", "5", "a", "c">>,
                  << <<"G", "o", "o", "d", "b", "y", "e", "!", " ", "U+1F44B">> >>)>>

\* the lines of a source: with and without a line break at the end
Lines == {<<"x">>, <<"x", "\n">>}

\* every source of at most n lines
Sources(n) == UNION {[1..k -> Lines] : k \in 0..n}

\* cell_type and execution_count of an entry: [type, has_ec, ec]
Shape(type, has_ec, ec) == [type |-> type, has_ec |-> has_ec, ec |-> ec]

\* the shapes a construction accepts
GoodShapes ==
    {Shape(S_code, TRUE, PyInt(1)), Shape(S_code, TRUE, PyNone),
     Shape(S_markdown, FALSE, PyNone), Shape(S_raw, FALSE, PyNone)}

\* and two more: a code cell without the key, a markdown cell with it
Shapes == GoodShapes \cup {Shape(S_code, FALSE, PyNone), Shape(S_markdown, TRUE, PyInt(1))}

\* the id of the i-th cell of an input
IdOf(i) == <<"c">> \o NatDigits(i)

\* hello-world under every version up to MaxVersion
VersionInputs ==
    {NotebookMapping(major, minor, HelloWorldCells) :
        major \in 0..MaxVersion, minor \in 0..MaxVersion}

\* version 4.5, one cell of any shape and any source of at most MaxLines lines
OneCellInputs ==
    {NotebookMapping(4, 5, <<CellMapping(sh.type, sh.has_ec, sh.ec, IdOf(1), src)>>) :
        sh \in Shapes, src \in Sources(MaxLines)}

\* version 4.5, up to MaxCells cells of accepted shapes and of at most one line
ManyCellInputs ==
    UNION {{NotebookMapping(4, 5,
                [i \in 1..k |->
                    CellMapping(c[i][1].type, c[i][1].has_ec, c[i][1].ec, IdOf(i), c[i][2])]) :
              c \in [1..k -> GoodShapes \X Sources(1)]} : k \in 0..MaxCells}

Inputs == VersionInputs \cup OneCellInputs \cup ManyCellInputs

(***************************************************************************)
(* The state.                                                              *)
(***************************************************************************)
VARIABLES
    ipynb,   \* the mapping loaded from the notebook file
    file,    \* the text of the notebook file
    pc,      \* "start", then "built" (nb is a Notebook) or "failed"
    nb,      \* the Notebook
    op,      \* the last method called on nb or on a converter of it
    exc,     \* the exception the last call raised, "" for none
    cells,   \* list(nb), after "iter"
    text,    \* the str returned by to_py_percent or outline
    dic,     \* the dict returned by serialize
    path,    \* what read the file in from_file: json_loads or literal_eval
    nb2      \* the Notebook built from dic or from the written file

vars == <<ipynb, file, pc, nb, op, exc, cells, text, dic, path, nb2>>

Init ==
    /\ ipynb \in Inputs
    /\ file = JsonDumps(ipynb)
    /\ pc = "start"
    /\ nb = NoNotebook
    /\ op = ""
    /\ exc = ""
    /\ cells = <<>>
    /\ text = <<>>
    /\ dic = PyNone
    /\ path = ""
    /\ nb2 = NoNotebook

\* nb = Notebook(ipynb)
NotebookInit ==
    /\ pc = "start"
    /\ LET r == Notebook(ipynb)
       IN  /\ pc' = IF r.exc = "" THEN "built" ELSE "failed"
           /\ nb' = r.obj
           /\ exc' = r.exc
    /\ op' = "Notebook"
    /\ UNCHANGED <<ipynb, file, cells, text, dic, path, nb2>>

\* nb = Notebook.from_file(filename)
NotebookFromFile ==
    /\ pc = "start"
    /\ LET r == from_file(file)
       IN  /\ pc' = IF r.exc = "" THEN "built" ELSE "failed"
           /\ nb' = r.obj
           /\ exc' = r.exc
           /\ path' = r.path
    /\ op' = "Notebook"
    /\ UNCHANGED <<ipynb, file, cells, text, dic, nb2>>

\* list(nb)
Iterate ==
    /\ pc = "built"
    /\ op' = "iter"
    /\ exc' = ""
    /\ cells' = Iter(nb)
    /\ text' = <<>>
    /\ dic' = PyNone
    /\ nb2' = NoNotebook
    /\ path' = ""
    /\ UNCHANGED <<ipynb, file, pc, nb>>

\* PyPercentSerializer(nb).to_py_percent()
ToPyPercent ==
    /\ pc = "built"
    /\ op' = "to_py_percent"
    /\ exc' = ""
    /\ text' = to_py_percent(nb)
    /\ cells' = <<>>
    /\ dic' = PyNone
    /\ nb2' = NoNotebook
    /\ path' = ""
    /\ UNCHANGED <<ipynb, file, pc, nb>>

\* Outliner(nb).outline()
Outline ==
    /\ pc = "built"
    /\ op' = "outline"
    /\ exc' = ""
    /\ text' = outline(nb)
    /\ cells' = <<>>
    /\ dic' = PyNone
    /\ nb2' = NoNotebook
    /\ path' = ""
    /\ UNCHANGED <<ipynb, file, pc, nb>>

\* Serializer(nb).serialize()
Serialize ==
    /\ pc = "built"
    /\ op' = "serialize"
    /\ LET r == serialize(nb)
       IN  /\ exc' = r.exc
           /\ dic' = r.val
    /\ cells' = <<>>
    /\ text' = <<>>
    /\ nb2' = NoNotebook
    /\ path' = ""
    /\ UNCHANGED <<ipynb, file, pc, nb>>

\* Notebook(dic), on the dict serialize returned
Reparse ==
    /\ pc = "built"
    /\ op = "serialize"
    /\ exc = ""
    /\ op' = "reparse"
    /\ LET r == Notebook(dic)
       IN  /\ exc' = r.exc
           /\ nb2' = r.obj
    /\ path' = ""
    /\ UNCHANGED <<ipynb, file, pc, nb, cells, text, dic>>

\* Serializer(nb).to_file(filename)
ToFile ==
    /\ pc = "built"
    /\ op' = "to_file"
    /\ LET r == to_file(nb)
       IN  /\ exc' = r.exc
           /\ file' = r.val
    /\ cells' = <<>>
    /\ text' = <<>>
    /\ dic' = PyNone
    /\ nb2' = NoNotebook
    /\ path' = ""
    /\ UNCHANGED <<ipynb, pc, nb>>

\* Notebook.from_file(filename), on the file to_file wrote
Reload ==
    /\ pc = "built"
    /\ op = "to_file"
    /\ op' = "from_file"
    /\ LET r == from_file(file)
       IN  /\ exc' = r.exc
           /\ nb2' = r.obj
           /\ path' = r.path
    /\ UNCHANGED <<ipynb, file, pc, nb, cells, text, dic>>

Next ==
    \/ NotebookInit
    \/ NotebookFromFile
    \/ Iterate
    \/ ToPyPercent
    \/ Outline
    \/ Serialize
    \/ Reparse
    \/ ToFile
    \/ Reload

Spec == Init /\ [][Next]_vars

(***************************************************************************)
(* Helpers of the properties.                                              *)
(***************************************************************************)
EndsWith(t, suffix) ==
    /\ Len(suffix) <= Len(t)
    /\ SubSeq(t, Len(t) - Len(suffix) + 1, Len(t)) = suffix

\* three line breaks in a row: more than one blank line
HasBlankRun(t) ==
    \E i \in 1..(Len(t) - 2) : t[i] = NL /\ t[i + 1] = NL /\ t[i + 2] = NL

\* the entries of the cells array of the input mapping
Entries == GetItem(ipynb, K_cells).items

LastLineEndsWithBreak(cell) ==
    /\ cell.source.items # <<>>
    /\ EndsWith(cell.source.items[Len(cell.source.items)].s, <<NL>>)

\* the lines of a text: the pieces between its line breaks
RECURSIVE SplitLines(_, _, _)
SplitLines(t, i, cur) ==
    IF i > Len(t) THEN <<cur>>
    ELSE IF t[i] = NL THEN <<cur>> \o SplitLines(t, i + 1, <<>>)
    ELSE SplitLines(t, i + 1, Append(cur, t[i]))

\* the header lines of an outline: the lines that start with the arrow
HeaderLines(t) ==
    LET ls == SplitLines(t, 1, <<>>)
    IN  SelectSeq(ls, LAMBDA l : Len(l) >= Len(S_arrow) /\ SubSeq(l, 1, Len(S_arrow)) = S_arrow)

\* two cells of the same kind, id, source and (code cells) execution_count
SameCell(a, b) ==
    /\ a.cls = b.cls
    /\ a.id = b.id
    /\ a.source = b.source
    /\ a.cls = "CodeCell" =>
          /\ a.has_execution_count = b.has_execution_count
          /\ a.execution_count = b.execution_count

\* two Documents of the same version string and the same cells in order
SameDocument(a, b) ==
    /\ a.version = b.version
    /\ Len(a.cells) = Len(b.cells)
    /\ \A i \in 1..Len(a.cells) : SameCell(a.cells[i], b.cells[i])

(***************************************************************************)
(* C1.  Round trip: a Document serialized and parsed again has the same    *)
(* version string, the same number of cells in the same order, and at each *)
(* position the same kind, id, source and (code cells) execution_count.    *)
(***************************************************************************)
\* C1: what Notebook builds from the dict serialize returned is the Document
C1_RoundTrip == op = "reparse" => (exc = "" /\ SameDocument(nb, nb2))

(***************************************************************************)
(* C2.  serialize returns the nbformat and the nbformat_minor the Document *)
(* was parsed from, also when they have two digits or more.                *)
(***************************************************************************)
\* C2: the dict has the nbformat and nbformat_minor of the input mapping
C2_VersionIntegers ==
    (op = "serialize" /\ exc = "") =>
        /\ GetItem(dic, K_nbformat) = GetItem(ipynb, K_nbformat)
        /\ GetItem(dic, K_nbformat_minor) = GetItem(ipynb, K_nbformat_minor)

(***************************************************************************)
(* C3.  The file to_file writes is JSON: from_file reads it through        *)
(* json.loads, its first path, and gets the same Document, the cells with  *)
(* the same ids in the same order.                                         *)
(***************************************************************************)
\* C3: from_file reads the file to_file wrote through json.loads and gets the
\* same Document (file # <<>>: to_file returned)
C3_FileRoundTripIsJson ==
    (op = "from_file" /\ file # <<>>) =>
        /\ exc = ""
        /\ path = "json_loads"
        /\ SameDocument(nb, nb2)

(***************************************************************************)
(* C4.  Iterating a Document yields as many cells as the cells array of    *)
(* the mapping has entries, and the i-th cell has the id, the source and   *)
(* the cell_type of the i-th entry.                                        *)
(***************************************************************************)
\* C4: list(nb) follows the cells array of the mapping, entry by entry
C4_IterationFollowsMapping ==
    op = "iter" =>
        /\ Len(cells) = Len(Entries)
        /\ \A i \in 1..Len(cells) :
              /\ cells[i].id = GetItem(Entries[i], K_id)
              /\ cells[i].source = GetItem(Entries[i], K_source)
              /\ cells[i].type = GetItem(Entries[i], K_cell_type)

\* C4, witness: iterated, two cells or more, of different ids and types
C4_Witness ==
    /\ op = "iter"
    /\ Len(cells) >= 2
    /\ cells[1].id # cells[2].id
    /\ cells[1].type # cells[2].type

(***************************************************************************)
(* C5.  In the outline a source of one line is rendered with the prefix    *)
(* '    | ', once; a source of n >= 2 lines with the corner prefix on its  *)
(* first line, the closing corner prefix on its last line and the bar      *)
(* prefix on every line between: one opening and one closing corner for    *)
(* the cell, whatever n is.                                                *)
(***************************************************************************)
\* the lines from the i-th to the one before the last, each after the bar
RECURSIVE C5_Interior(_, _)
C5_Interior(lines, i) ==
    IF i >= Len(lines) THEN <<>>
    ELSE S_inner \o lines[i].s \o C5_Interior(lines, i + 1)

\* the rendering the claim gives for a source of one line or more
C5_Lines(lines) ==
    IF Len(lines) = 1 THEN S_single \o lines[1].s
    ELSE S_first \o lines[1].s \o C5_Interior(lines, 2)
            \o S_last \o lines[Len(lines)].s

RECURSIVE C5_Blocks(_, _)
C5_Blocks(cs, i) ==
    IF i > Len(cs) THEN <<>>
    ELSE OutlineHeader(cs[i]) \o C5_Lines(cs[i].source.items) \o <<NL>>
            \o C5_Blocks(cs, i + 1)

\* how many times c is in t
RECURSIVE Count(_, _, _)
Count(t, c, i) ==
    IF i > Len(t) THEN 0
    ELSE (IF t[i] = c THEN 1 ELSE 0) + Count(t, c, i + 1)

\* C5: the outline is the title line and, for every cell, its header and its
\* source lines with the prefixes of the claim
C5_OutlinePrefixes ==
    (op = "outline" /\ \A i \in 1..Len(nb.cells) : nb.cells[i].source.items # <<>>) =>
        /\ text \o <<NL>> = S_title \o nb.version \o <<NL>> \o C5_Blocks(nb.cells, 1)
        \* the corner is drawn once for every source of two lines or more, the
        \* '|' once for every source of one line
        /\ Count(text, "U+250C", 1) =
              Cardinality({i \in 1..Len(nb.cells) : Len(nb.cells[i].source.items) >= 2})
        /\ Count(text, "|", 1) =
              Cardinality({i \in 1..Len(nb.cells) : Len(nb.cells[i].source.items) = 1})

\* C5, witness: outlined, a cell of one line and a cell of three lines or more
C5_Witness ==
    /\ op = "outline"
    /\ \E i, j \in 1..Len(nb.cells) :
          /\ Len(nb.cells[i].source.items) = 1
          /\ Len(nb.cells[j].source.items) >= 3

(***************************************************************************)
(* C6.  The outline has no line break at its end, whatever the source of   *)
(* the last cell is.                                                       *)
(***************************************************************************)
\* C6 as stated: no outline ends with a line break
C6_NoFinalLineBreak == op = "outline" => ~EndsWith(text, <<NL>>)

(***************************************************************************)
(* C6, amended.  The outline ends with a line break exactly when it has a  *)
(* last cell whose source is empty or whose last line ends with a line     *)
(* break: outline removes one line break, the one it added after the last  *)
(* block, and no more.                                                     *)
(***************************************************************************)
\* C6, amended: the outline ends with a line break exactly when the source of
\* the last cell is empty or ends with one
C6_FinalLineBreakIffLastLineHasOne ==
    op = "outline" =>
        (EndsWith(text, <<NL>>) <=>
            /\ nb.cells # <<>>
            /\ LET last == nb.cells[Len(nb.cells)]
               IN  last.source.items = <<>> \/ LastLineEndsWithBreak(last))

\* C6, witness: outlined, the last line of the last cell ends with a line break
C6_Witness ==
    /\ op = "outline"
    /\ nb.cells # <<>>
    /\ LastLineEndsWithBreak(nb.cells[Len(nb.cells)])
    /\ EndsWith(text, <<NL>>)

(***************************************************************************)
(* C7.  The py-percent text has exactly one blank line between two         *)
(* consecutive cell blocks, never more, and no blank line after the last;  *)
(* it is empty for a Document without cells.                               *)
(***************************************************************************)
\* C7 as stated: never three line breaks in a row, no blank line at the end,
\* the empty text for no cells
C7_OneBlankLineBetweenBlocks ==
    op = "to_py_percent" =>
        /\ ~HasBlankRun(text)
        /\ ~EndsWith(text, <<NL, NL>>)
        /\ nb.cells = <<>> => text = <<>>

(***************************************************************************)
(* C7, amended.  The py-percent text is the blocks of the cells (the       *)
(* marker line, then the source lines) joined by two line breaks, with     *)
(* nothing after the last block, and is empty for a Document without       *)
(* cells.  That is one blank line between two blocks, and no blank line at *)
(* the end, when every source is non-empty and its last line does not end  *)
(* with a line break.                                                      *)
(***************************************************************************)
RECURSIVE C7_Join(_, _)
C7_Join(cs, i) ==
    IF i > Len(cs) THEN <<>>
    ELSE PyPercentBlock(cs[i]) \o (IF i < Len(cs) THEN <<NL, NL>> ELSE <<>>)
            \o C7_Join(cs, i + 1)

\* C7, amended: the text is the blocks joined by two line breaks; one blank
\* line between blocks when no source is empty or ends with a line break
C7_BlocksJoinedByTwoBreaks ==
    op = "to_py_percent" =>
        /\ text = C7_Join(nb.cells, 1)
        /\ (\A i \in 1..Len(nb.cells) :
                /\ nb.cells[i].source.items # <<>>
                /\ ~LastLineEndsWithBreak(nb.cells[i]))
              => (~HasBlankRun(text) /\ ~EndsWith(text, <<NL>>))

\* C7, witness: converted, two cells or more, the first with a last line that ends with a
\* line break
C7_Witness ==
    /\ op = "to_py_percent"
    /\ Len(nb.cells) >= 2
    /\ LastLineEndsWithBreak(nb.cells[1])
    /\ HasBlankRun(text)

(***************************************************************************)
(* C8.  In the outline the header line of a code cell ends with its        *)
(* execution count in parentheses, with nothing between the parentheses    *)
(* when the count is null; the header of a markdown cell has no            *)
(* parenthesis.                                                            *)
(***************************************************************************)
\* C8: a code header ends with ' (count)', with ' ()' for a null count; a
\* markdown header has no parenthesis
C8_HeaderParentheses ==
    op = "outline" =>
        LET hs == HeaderLines(text)
        IN  /\ Len(hs) = Len(nb.cells)
            /\ \A i \in 1..Len(nb.cells) :
                  LET cell == nb.cells[i]
                  IN  /\ cell.type = PyStr(S_code) =>
                            EndsWith(hs[i],
                                <<" ", "(">>
                                \o (IF cell.execution_count = PyNone THEN <<>>
                                    ELSE Str(cell.execution_count))
                                \o <<")">>)
                      /\ cell.type = PyStr(S_markdown) =>
                            /\ Count(hs[i], "(", 1) = 0
                            /\ Count(hs[i], ")", 1) = 0

(***************************************************************************)
(* C9.  A code cell is constructed from a mapping with cell_type, id and   *)
(* source whether execution_count is an integer, null or missing: every    *)
(* input of the model has the three keys in every cell, so no construction *)
(* fails.                                                                  *)
(***************************************************************************)
\* C9: the construction of the Notebook raises nothing
C9_ConstructionSucceeds == op = "Notebook" => (exc = "" /\ pc = "built")

(***************************************************************************)
(* C10.  outline, to_py_percent and serialize return a result, without an  *)
(* exception, on every Document that was constructed.                      *)
(***************************************************************************)
\* C10: no converter raises
C10_ConvertersTotal ==
    op \in {"outline", "to_py_percent", "serialize"} => exc = ""

=============================================================================
